---- MODULE Spec2Model ----
(***************************************************************************)
(* py-web-server: user registration.                                       *)
(*                                                                         *)
(* Three specifications over one set of variables:                         *)
(*   Spec          the registration flow: requests served by main.app and  *)
(*                 by the signup endpoint of routers/auth.py, the service  *)
(*                 register_user, the repository and the users table;      *)
(*   SpecValidate  the UserCreate field validators as pure functions;      *)
(*   SpecHash      hash_password / verify_password as pure functions.      *)
(*                                                                         *)
(* Strings are sequences of one-character strings, so that lengths and     *)
(* character classes are computed as the code computes them.               *)
(***************************************************************************)
EXTENDS Integers, Sequences, FiniteSets, TLC

VARIABLES
    store,      \* committed rows of the users table
    pc,         \* per request: the step of the flow it is at
    req,        \* per request: entry point, method, path and body
    local,      \* per request: register_user's locals and its session
    resp,       \* per request: the HTTP response
    vField,     \* SpecValidate: which validator ran last
    vValue,     \* SpecValidate: its input
    vAccepted,  \* SpecValidate: TRUE iff no validation error was raised
    hPc,        \* SpecHash: position
    hPassword,  \* SpecHash: the password that was hashed
    hHash,      \* SpecHash: the hash string under verification
    hCandidate, \* SpecHash: the password offered to verify_password
    hResult,    \* SpecHash: verify_password's return value
    hRaised     \* SpecHash: the exception verify_password let through, or "none"

regVars == <<store, pc, req, local, resp>>
valVars == <<vField, vValue, vAccepted>>
hashVars == <<hPc, hPassword, hHash, hCandidate, hResult, hRaised>>
vars == <<store, pc, req, local, resp, vField, vValue, vAccepted,
          hPc, hPassword, hHash, hCandidate, hResult, hRaised>>

----------------------------------------------------------------------------
(* Bounds *)

NumReqs == 2        \* concurrent requests
NumSalts == 2       \* distinct random salts the hasher may draw
MaxCore == 3        \* length of the enumerated part of a validator input

----------------------------------------------------------------------------
(* Characters and strings *)

LowerAscii == {"a","b","c","d","e","f","g","h","i","j","k","l","m",
               "n","o","p","q","r","s","t","u","v","w","x","y","z"}
UpperAscii == {"A","B","C","D","E","F","G","H","I","J","K","L","M",
               "N","O","P","Q","R","S","T","U","V","W","X","Y","Z"}
DigitAscii == {"0","1","2","3","4","5","6","7","8","9"}

\* Non-ASCII letters: str.isalnum / isupper / islower are Unicode-aware.
LowerOther == {"é"}
UpperOther == {"É"}

isupper(c) == c \in UpperAscii \cup UpperOther
islower(c) == c \in LowerAscii \cup LowerOther
isdigit(c) == c \in DigitAscii
isalnum(c) == isupper(c) \/ islower(c) \/ isdigit(c)

Range(s) == {s[i] : i \in 1..Len(s)}

\* Strings over alphabet A of length at most n.
StrsUpTo(A, n) == UNION {[1..k -> A] : k \in 0..n}

\* s extended with filler up to length n (s itself when already that long).
PadTo(s, n, filler) ==
    IF Len(s) >= n THEN s ELSE s \o [i \in 1..(n - Len(s)) |-> filler]

----------------------------------------------------------------------------
(* schemas/user.py: UserCreate *)

UsernameMinLength == 3
UsernameMaxLength == 50
PasswordMinLength == 8
PasswordMaxLength == 100

\* pattern=r'^[a-zA-Z0-9_-]+$'
UsernamePatternClass == LowerAscii \cup UpperAscii \cup DigitAscii \cup {"_", "-"}
UsernamePattern(v) == Len(v) >= 1 /\ \A i \in 1..Len(v) : v[i] \in UsernamePatternClass

\* The Field(...) constraints of username, checked before the field validator.
UsernameField(v) ==
    /\ Len(v) >= UsernameMinLength
    /\ Len(v) <= UsernameMaxLength
    /\ UsernamePattern(v)

\* Faulty variant: the validator body dropped (returns v unconditionally).
validate_username_noop(v) == TRUE

\* TRUE iff validate_username returns v, FALSE iff it raises ValueError.
validate_username(v) == \E i \in 1..Len(v) : isalnum(v[i])

UsernameAccepted(v) == UsernameField(v) /\ validate_username(v)

\* The Field(...) constraints of password.
PasswordField(v) == Len(v) >= PasswordMinLength /\ Len(v) <= PasswordMaxLength

\* Faulty variant: the digit check dropped.
validate_password_strength_nodigit(v) ==
    /\ \E i \in 1..Len(v) : isupper(v[i])
    /\ \E i \in 1..Len(v) : islower(v[i])

\* TRUE iff validate_password_strength returns v, FALSE iff it raises ValueError.
validate_password_strength(v) ==
    /\ \E i \in 1..Len(v) : isupper(v[i])
    /\ \E i \in 1..Len(v) : islower(v[i])
    /\ \E i \in 1..Len(v) : isdigit(v[i])

PasswordAccepted(v) == PasswordField(v) /\ validate_password_strength(v)

\* EmailStr: one "@", a non-empty local part, a domain with a dot in the middle.
AtPositions(v) == {i \in 1..Len(v) : v[i] = "@"}
EmailAccepted(v) ==
    /\ Cardinality(AtPositions(v)) = 1
    /\ LET at == CHOOSE i \in AtPositions(v) : TRUE
       IN  /\ at > 1
           /\ \E j \in (at + 2)..(Len(v) - 1) : v[j] = "."
           /\ v[Len(v)] # "." /\ v[at + 1] # "."

\* EmailStr hands the validator's normalised address on: the domain lower-cased.
UpperSeq == <<"A","B","C","D","E","F","G","H","I","J","K","L","M",
              "N","O","P","Q","R","S","T","U","V","W","X","Y","Z">>
LowerSeq == <<"a","b","c","d","e","f","g","h","i","j","k","l","m",
              "n","o","p","q","r","s","t","u","v","w","x","y","z">>
ToLower(c) ==
    IF c \in UpperAscii
    THEN LowerSeq[CHOOSE k \in 1..Len(UpperSeq) : UpperSeq[k] = c]
    ELSE c
EmailNormalised(v) ==
    LET at == IF AtPositions(v) = {} THEN Len(v) ELSE CHOOSE i \in AtPositions(v) : TRUE
    IN  [i \in 1..Len(v) |-> IF i > at THEN ToLower(v[i]) ELSE v[i]]

\* Faulty variant: the username field declared as a plain str, with no constraints.
UserCreateErrors_username_unchecked(b) ==
    (IF EmailAccepted(b.email) THEN <<>> ELSE <<"email">>)
    \o (IF PasswordAccepted(b.password) THEN <<>> ELSE <<"password">>)

\* The field-level errors of a request body, in field order.
UserCreateErrors(b) ==
    (IF UsernameAccepted(b.username) THEN <<>> ELSE <<"username">>)
    \o (IF EmailAccepted(b.email) THEN <<>> ELSE <<"email">>)
    \o (IF PasswordAccepted(b.password) THEN <<>> ELSE <<"password">>)

\* The validated model handed to the endpoint.
UserCreate(b) ==
    [username |-> b.username, email |-> EmailNormalised(b.email), password |-> b.password]

----------------------------------------------------------------------------
(* utils/password.py *)

Salts == 1..NumSalts

\* argon2's digest of a password under a salt, as a symbolic (collision-free) term.
Argon2Digest(salt, password) == <<salt, password>>

\* hash_password: the encoded hash names the algorithm and carries the salt.
hash_password(password, salt) ==
    [alg |-> "argon2id", salt |-> salt, digest |-> Argon2Digest(salt, password)]

\* PasswordHasher.verify: "ok", or the exception it raises.  A string without
\* an argon2 header (another algorithm's hash, or no hash at all) is an
\* InvalidHashError; an argon2 header over parameters that do not decode (here:
\* no salt) is a VerificationError in the releases that do not yet map
\* decoding failures to InvalidHashError; a decodable hash that the password
\* does not reproduce is a VerifyMismatchError.
PasswordHasherVerify(h, password) ==
    IF h.alg # "argon2id" THEN "InvalidHashError"
    ELSE IF h.salt < 1 THEN "VerificationError"
    ELSE IF h.digest = Argon2Digest(h.salt, password) THEN "ok"
    ELSE "VerifyMismatchError"

\* What PasswordHasher.verify raises is an Exception (not a bare BaseException).
Exceptions == {"VerifyMismatchError", "InvalidHashError", "VerificationError"}

\* Faulty variant: the closing "except Exception" clause missing.
verify_password_raised_no_catch_all(h, password) ==
    LET r == PasswordHasherVerify(h, password)
    IN  IF r = "ok" THEN "none"
        ELSE IF r = "VerifyMismatchError" THEN "none"
        ELSE IF r = "InvalidHashError" THEN "none"
        ELSE r

\* The exception that leaves verify_password, "none" when it returns.
verify_password_raised(h, password) ==
    LET r == PasswordHasherVerify(h, password)
    IN  IF r = "ok" THEN "none"
        ELSE IF r = "VerifyMismatchError" THEN "none"
        ELSE IF r = "InvalidHashError" THEN "none"
        ELSE IF r \in Exceptions THEN "none"
        ELSE r

\* Faulty variant: the VerifyMismatchError handler returns True.
verify_password_mismatch_true(h, password) ==
    LET r == PasswordHasherVerify(h, password)
    IN  IF r = "ok" THEN TRUE
        ELSE IF r = "VerifyMismatchError" THEN TRUE
        ELSE FALSE

verify_password(h, password) ==
    LET r == PasswordHasherVerify(h, password)
    IN  IF r = "ok" THEN TRUE
        ELSE IF r = "VerifyMismatchError" THEN FALSE
        ELSE IF r = "InvalidHashError" THEN FALSE
        ELSE FALSE

----------------------------------------------------------------------------
(* Request inputs *)

Reqs == 1..NumReqs

abc == <<"a","b","c">>
bob == <<"b","o","b">>
ab == <<"a","b">>
dashes == <<"-","-","-">>
mail_a == <<"a","@","x",".","i","o">>
mail_a_upper == <<"a","@","X",".","i","o">>
mail_b == <<"b","@","x",".","i","o">>
mail_bad == <<"b","a","d">>
ValidPass123 == <<"V","a","l","i","d","P","a","s","s","1","2","3">>
short1A == <<"s","h","o","r","t","1","A">>
alllowercase1 == <<"a","l","l","l","o","w","e","r","c","a","s","e","1">>
NoDigitsHere == <<"N","o","D","i","g","i","t","s","H","e","r","e">>

NoBody == [username |-> <<>>, email |-> <<>>, password |-> <<>>]

\* Request bodies: three valid ones that share a username (1, 2) or, once
\* normalised, an email (1, 3), and one invalid one per field.
Bodies ==
    { [username |-> abc,    email |-> mail_a,       password |-> ValidPass123],
      [username |-> abc,    email |-> mail_b,       password |-> ValidPass123],
      [username |-> bob,    email |-> mail_a_upper, password |-> ValidPass123],
      [username |-> dashes, email |-> mail_a,       password |-> ValidPass123],
      [username |-> bob,    email |-> mail_bad,     password |-> ValidPass123],
      [username |-> bob,    email |-> mail_b,       password |-> short1A] }

----------------------------------------------------------------------------
(* models/user.py, repositories/user_repository.py *)

NoHash == [alg |-> "none", salt |-> 0, digest |-> <<0, <<>>>>]

\* A row of the users table; id (uuid4) and the timestamps are generated.
User(id, username, email, password_hash, now) ==
    [id |-> id, username |-> username, email |-> email,
     password_hash |-> password_hash, created_at |-> now, updated_at |-> now]

\* Faulty variant: unique=True missing on the email column.
UniqueViolation_username_only(st, username, email) ==
    \E u \in st : u.username = username

\* The unique constraints of the users table, as the INSERT meets them.
UniqueViolation(st, username, email) ==
    \E u \in st : u.username = username \/ u.email = email

\* select(User).where(User.username == username): the matching rows.
get_user_by_username(st, username) == {u \in st : u.username = username}

\* select(User).where(User.email == email): the matching rows.
get_user_by_email(st, email) == {u \in st : u.email = email}

\* scalar_one_or_none: "none", "one", or MultipleResultsFound.
scalar_one_or_none(rows) ==
    IF rows = {} THEN "none"
    ELSE IF Cardinality(rows) = 1 THEN "one"
    ELSE "MultipleResultsFound"

StorageFaults == {"none", "commit", "refresh"}

\* Faulty variant: the table carries no unique constraint, so the INSERT always lands.
create_user_unconstrained(st, username, email, password_hash, fault) ==
    LET user == User(Cardinality(st) + 1, username, email, password_hash, Cardinality(st))
    IN  IF fault = "commit"
        THEN [raised |-> "OperationalError", store |-> st, user |-> user]
        ELSE IF fault = "refresh"
        THEN [raised |-> "OperationalError", store |-> st \cup {user}, user |-> user]
        ELSE [raised |-> "none", store |-> st \cup {user}, user |-> user]

\* Faulty variant: the INSERT is not undone when the constraint turns it down.
create_user_partial(st, username, email, password_hash, fault) ==
    LET user == User(Cardinality(st) + 1, username, email, password_hash, Cardinality(st))
    IN  IF fault = "commit"
        THEN [raised |-> "OperationalError", store |-> st, user |-> user]
        ELSE IF UniqueViolation(st, username, email)
        THEN [raised |-> "IntegrityError", store |-> st \cup {user}, user |-> user]
        ELSE IF fault = "refresh"
        THEN [raised |-> "OperationalError", store |-> st \cup {user}, user |-> user]
        ELSE [raised |-> "none", store |-> st \cup {user}, user |-> user]

\* create_user: add, commit, refresh.  fault names the statement the database
\* fails at for a reason other than a constraint.  The result is what the
\* caller sees (raised: "none" or the exception) and the table afterwards.
create_user(st, username, email, password_hash, fault) ==
    LET user == User(Cardinality(st) + 1, username, email, password_hash, Cardinality(st))
    IN  IF fault = "commit"
        THEN [raised |-> "OperationalError", store |-> st, user |-> user]
        ELSE IF UniqueViolation(st, username, email)
        THEN [raised |-> "IntegrityError", store |-> st, user |-> user]
        ELSE IF fault = "refresh"
        THEN [raised |-> "OperationalError", store |-> st \cup {user}, user |-> user]
        ELSE [raised |-> "none", store |-> st \cup {user}, user |-> user]

----------------------------------------------------------------------------
(* schemas/user.py: UserResponse *)

\* Faulty variant: password_hash declared as a response field.
UserResponse_with_hash(user) ==
    [id |-> user.id, username |-> user.username, email |-> user.email,
     created_at |-> user.created_at, password_hash |-> user.password_hash]

\* UserResponse.model_validate(user): the declared fields, read by attribute.
UserResponse(user) ==
    [id |-> user.id, username |-> user.username, email |-> user.email,
     created_at |-> user.created_at]

----------------------------------------------------------------------------
(* main.py: the application and its route table *)

\* The routes main.app serves: the documentation routes of the FastAPI
\* constructor and /health.  The include_router call for routers/auth.py is
\* commented out, so no /auth route is among them.
AppRoutes ==
    { <<"GET", "/docs">>, <<"GET", "/redoc">>, <<"GET", "/openapi.json">>,
      <<"GET", "/health">> }

\* The routes of routers/auth.py's APIRouter, relative to wherever it is mounted.
RouterRoutes == { <<"POST", "/signup">> }

Response(status, body) == [status |-> status, body |-> body]
NoResponse == Response(0, [pending |-> TRUE])

health_check == Response(200, [status |-> "healthy"])

\* Starlette's answer for a request no route matches.
NoRoute(routes, method, path) ==
    IF \E m \in {"GET", "POST"} : <<m, path>> \in routes
    THEN Response(405, [detail |-> "Method Not Allowed"])
    ELSE Response(404, [detail |-> "Not Found"])

\* What main.app answers without reaching any handler of routers/auth.py.
app(method, path) ==
    IF <<method, path>> \in AppRoutes /\ path = "/health"
    THEN health_check
    ELSE IF <<method, path>> \in AppRoutes
    THEN Response(200, [document |-> path])
    ELSE NoRoute(AppRoutes, method, path)

AppRequests ==
    { [entry |-> "app", method |-> "GET", path |-> "/health", body |-> NoBody] }
    \cup { [entry |-> "app", method |-> "POST", path |-> "/auth/signup", body |-> b] : b \in Bodies }

NoRequest == [entry |-> "none", method |-> "", path |-> "", body |-> NoBody]

----------------------------------------------------------------------------
(* services/user_service.py, routers/auth.py: responses *)

HTTP_201_CREATED == 201
HTTP_400_BAD_REQUEST == 400
HTTP_422_UNPROCESSABLE == 422
HTTP_500_INTERNAL_SERVER_ERROR == 500

HTTPException(status, detail) == Response(status, [detail |-> detail])

\* FastAPI's RequestValidationError response: one entry per failing field.
ValidationErrorResponse(errors) ==
    Response(HTTP_422_UNPROCESSABLE,
             [detail |-> [i \in 1..Len(errors) |->
                            [loc |-> <<"body", errors[i]>>, type |-> "value_error"]]])

\* An exception no handler catches: the server's plain-text 500.
UnhandledError == Response(HTTP_500_INTERNAL_SERVER_ERROR, [text |-> "Internal Server Error"])

\* Faulty variant: the IntegrityError handler missing, so the generic handler takes it.
CreateErrorResponse_no_integrity_handler(raised) ==
    HTTPException(HTTP_500_INTERNAL_SERVER_ERROR, "An error occurred while creating the user")

\* register_user's except clauses around create_user.
CreateErrorResponse(raised) ==
    IF raised = "IntegrityError"
    THEN HTTPException(HTTP_400_BAD_REQUEST, "Username or email already registered")
    ELSE HTTPException(HTTP_500_INTERNAL_SERVER_ERROR, "An error occurred while creating the user")

----------------------------------------------------------------------------
(* Per-request state of register_user and of its session *)

NoLocal ==
    [user_data |-> NoBody, password_hash |-> NoHash, calls |-> <<>>,
     rolled_back |-> FALSE, closed |-> FALSE, fault |-> "none", written |-> 0]

\* The request is over: the response is set and get_db's finally closes the session.
Finish(r, response, l) ==
    /\ resp' = [resp EXCEPT ![r] = response]
    /\ local' = [local EXCEPT ![r] = [l EXCEPT !.closed = TRUE]]
    /\ pc' = [pc EXCEPT ![r] = "done"]

Called(l, op) == [l EXCEPT !.calls = Append(@, op)]

----------------------------------------------------------------------------
(* Spec: the registration flow *)

Init ==
    /\ store = {}
    /\ pc = [r \in Reqs |-> "idle"]
    /\ req = [r \in Reqs |-> NoRequest]
    /\ local = [r \in Reqs |-> NoLocal]
    /\ resp = [r \in Reqs |-> NoResponse]
    /\ vField = "none"
    /\ vValue = <<>>
    /\ vAccepted = FALSE
    /\ hPc = "start"
    /\ hPassword = <<>>
    /\ hHash = NoHash
    /\ hCandidate = <<>>
    /\ hResult = FALSE
    /\ hRaised = "none"

\* A request arrives at main.app and is answered from its route table.
serve_app(r) ==
    /\ pc[r] = "idle"
    /\ \E rq \in AppRequests :
        /\ req' = [req EXCEPT ![r] = rq]
        /\ Finish(r, app(rq.method, rq.path), NoLocal)
    /\ UNCHANGED <<store, valVars, hashVars>>

\* A request arrives at the signup endpoint of routers/auth.py.  FastAPI
\* validates the body into UserCreate before it calls the endpoint; the
\* endpoint calls register_user, which goes on in the steps below.
signup(r) ==
    /\ pc[r] = "idle"
    /\ \E b \in Bodies, route \in RouterRoutes :
        LET errors == UserCreateErrors(b)
        IN  /\ req' = [req EXCEPT ![r] =
                        [entry |-> "router", method |-> route[1], path |-> route[2], body |-> b]]
            /\ IF errors # <<>>
               THEN Finish(r, ValidationErrorResponse(errors), NoLocal)
               ELSE /\ pc' = [pc EXCEPT ![r] = "check_username"]
                    /\ local' = [local EXCEPT ![r] =
                                   [NoLocal EXCEPT !.user_data = UserCreate(b)]]
                    /\ UNCHANGED resp
    /\ UNCHANGED <<store, valVars, hashVars>>

\* Faulty variant: the username check left out, the email check comes first.
check_username_skipped(r) ==
    /\ pc[r] = "check_username"
    /\ pc' = [pc EXCEPT ![r] = "check_email"]
    /\ UNCHANGED <<store, req, local, resp, valVars, hashVars>>

\* register_user, lines 56-62: the username lookup, outside any try block.
check_username(r) ==
    /\ pc[r] = "check_username"
    /\ \E fault \in BOOLEAN :
        LET l == Called(local[r], "get_user_by_username")
            existing_user == scalar_one_or_none(get_user_by_username(store, l.user_data.username))
        IN  IF fault
            THEN Finish(r, UnhandledError, [l EXCEPT !.fault = "get_user_by_username"])
            ELSE IF existing_user = "MultipleResultsFound"
            THEN Finish(r, UnhandledError, l)
            ELSE IF existing_user = "one"
            THEN Finish(r, HTTPException(HTTP_400_BAD_REQUEST, "Username already registered"), l)
            ELSE /\ pc' = [pc EXCEPT ![r] = "check_email"]
                 /\ local' = [local EXCEPT ![r] = l]
                 /\ UNCHANGED resp
    /\ UNCHANGED <<store, req, valVars, hashVars>>

\* register_user, lines 64-70: the email lookup, outside any try block.
check_email(r) ==
    /\ pc[r] = "check_email"
    /\ \E fault \in BOOLEAN :
        LET l == Called(local[r], "get_user_by_email")
            existing_user == scalar_one_or_none(get_user_by_email(store, l.user_data.email))
        IN  IF fault
            THEN Finish(r, UnhandledError, [l EXCEPT !.fault = "get_user_by_email"])
            ELSE IF existing_user = "MultipleResultsFound"
            THEN Finish(r, UnhandledError, l)
            ELSE IF existing_user = "one"
            THEN Finish(r, HTTPException(HTTP_400_BAD_REQUEST, "Email already registered"), l)
            ELSE /\ pc' = [pc EXCEPT ![r] = "hash"]
                 /\ local' = [local EXCEPT ![r] = l]
                 /\ UNCHANGED resp
    /\ UNCHANGED <<store, req, valVars, hashVars>>

\* register_user, lines 72-73: the password is hashed under a fresh random salt.
hash(r) ==
    /\ pc[r] = "hash"
    /\ \E salt \in Salts :
        local' = [local EXCEPT ![r] =
                    [Called(local[r], "hash_password")
                       EXCEPT !.password_hash = hash_password(local[r].user_data.password, salt)]]
    /\ pc' = [pc EXCEPT ![r] = "create"]
    /\ UNCHANGED <<store, req, resp, valVars, hashVars>>

\* register_user, lines 75-98, and signup's return: create_user in the try
\* block, the two except clauses, and the response built from the created user.
create(r) ==
    /\ pc[r] = "create"
    /\ \E fault \in StorageFaults :
        LET l == Called(local[r], "create_user")
            res == create_user(store, l.user_data.username, l.user_data.email,
                               l.password_hash, fault)
            added == IF res.user \in res.store THEN res.user.id ELSE 0
        IN  /\ store' = res.store
            /\ IF res.raised = "none"
               THEN Finish(r, Response(HTTP_201_CREATED, UserResponse(res.user)),
                           [l EXCEPT !.written = added])
               ELSE Finish(r, CreateErrorResponse(res.raised),
                           [Called(l, "rollback")
                              EXCEPT !.rolled_back = TRUE,
                                     !.written = added,
                                     !.fault = IF res.raised = "IntegrityError"
                                               THEN "none" ELSE fault])
    /\ UNCHANGED <<req, valVars, hashVars>>

Next ==
    \E r \in Reqs :
        \/ serve_app(r)
        \/ signup(r)
        \/ check_username(r)
        \/ check_email(r)
        \/ hash(r)
        \/ create(r)

Spec == Init /\ [][Next]_vars

----------------------------------------------------------------------------
(* Claims about the registration flow (Spec) *)

\* The fields of a body that fail their format constraints.
FailingFields ==
    [b \in Bodies |->
    {f \in {"username", "email", "password"} :
        \/ f = "username" /\ ~UsernameAccepted(b.username)
        \/ f = "email" /\ ~EmailAccepted(b.email)
        \/ f = "password" /\ ~PasswordAccepted(b.password)}]

\* The bodies that satisfy the format constraints, and their emails as stored.
ValidBodies == {b \in Bodies : FailingFields[b] = {}}
NormalisedEmail == [b \in Bodies |-> EmailNormalised(b.email)]

\* r went through the signup endpoint with a valid body and is answered.
Registered(r) == pc[r] = "done" /\ req[r].entry = "router" /\ req[r].body \in ValidBodies

DuplicateDetails ==
    { "Username already registered", "Email already registered",
      "Username or email already registered" }

Duplicate400(r) ==
    /\ resp[r].status = 400
    /\ resp[r].body \in { [detail |-> d] : d \in DuplicateDetails }

\* The row r's registration committed is in the table, with r's data.
RowOf(r) == {u \in store : u.id = local[r].written}
RowIntact(r) ==
    \E u \in RowOf(r) :
        /\ u.username = req[r].body.username
        /\ u.email = NormalisedEmail[req[r].body]
        /\ verify_password(u.password_hash, req[r].body.password)
        /\ resp[r].body = UserResponse(u)

\* No row other than those of r1 and r2 carries their username or emails.
NoOutsideConflict(r1, r2) ==
    \A u \in store :
        u.id \notin {local[r1].written, local[r2].written}
        => /\ u.username # req[r1].body.username
           /\ u.email \notin {local[r1].user_data.email, local[r2].user_data.email}

\* C1: two registrations with the same username and otherwise non-conflicting
\* valid data, racing against a table without that username and meeting no
\* storage failure: in every interleaving exactly one is answered 201 and the
\* other 400 with a duplicate detail, neither 500, and the table holds exactly
\* one row with that username, the winner's, with the winner's data.
C1_ConcurrentSameUsername ==
    \A r1, r2 \in Reqs :
        ( /\ r1 # r2
          /\ Registered(r1) /\ Registered(r2)
          /\ req[r1].body.username = req[r2].body.username
          /\ local[r1].fault = "none" /\ local[r2].fault = "none"
          /\ NoOutsideConflict(r1, r2) )
        => \E w \in {r1, r2} :
             LET l == CHOOSE x \in {r1, r2} : x # w
             IN  /\ resp[w].status = 201
                 /\ RowIntact(w)
                 /\ Duplicate400(l)
                 /\ local[l].written = 0
                 /\ Cardinality(get_user_by_username(store, req[w].body.username)) = 1

\* C1 witness: the race proper: both passed both lookups, one insert won and
\* the other was rejected by the constraint.
C1_Witness ==
    \E r1, r2 \in Reqs :
        /\ r1 # r2 /\ Registered(r1) /\ Registered(r2)
        /\ req[r1].body.username = req[r2].body.username
        /\ req[r1].body.email # req[r2].body.email
        /\ resp[r1].status = 201
        /\ resp[r2] = HTTPException(400, "Username or email already registered")

\* C2: no two distinct rows of the users table share a username, and no two
\* share an email.
C2_UniqueUsernameAndEmail ==
    \A u, v \in store :
        u # v => (u.username # v.username /\ u.email # v.email)

\* C2 witness: a row is stored and an insert carrying its email under another
\* username was turned down by the constraint.
C2_Witness ==
    \E r1, r2 \in Reqs :
        /\ Registered(r1) /\ Registered(r2)
        /\ resp[r1].status = 201
        /\ req[r2].body.username # req[r1].body.username
        /\ local[r2].user_data.email = local[r1].user_data.email
        /\ resp[r2] = HTTPException(400, "Username or email already registered")

\* The registrations of body b that met no storage failure.
RegistrationsOf(b) ==
    {r \in Reqs : Registered(r) /\ req[r].body = b /\ local[r].fault = "none"}

\* Every row holding b's username or email was created by a successful
\* registration of b itself.
OnlyOwnRows(b) ==
    \A u \in store :
        (u.username = b.username \/ u.email = NormalisedEmail[b])
        => \E r \in RegistrationsOf(b) : local[r].written = u.id /\ resp[r].status = 201

\* C3: for a valid triple whose username and email no other registration
\* holds, registration succeeds exactly once: one registration of the triple
\* is answered 201 with the created user, every other one is answered 400 with
\* a duplicate detail and writes nothing, and the table holds one row for the
\* triple.
C3_SucceedsExactlyOnce ==
    \A b \in ValidBodies :
        (RegistrationsOf(b) # {} /\ OnlyOwnRows(b))
        => /\ \E w \in RegistrationsOf(b) :
                /\ resp[w].status = 201
                /\ RowIntact(w)
                /\ \A l \in RegistrationsOf(b) \ {w} :
                      /\ Duplicate400(l)
                      /\ local[l].written = 0
           /\ Cardinality(get_user_by_username(store, b.username)) = 1

\* C3 witness: the identical triple registered a second time, its username
\* lookup finding the row the first registration created.
C3_Witness ==
    \E r1, r2 \in Reqs :
        /\ r1 # r2 /\ Registered(r1) /\ Registered(r2)
        /\ req[r1].body = req[r2].body
        /\ resp[r1].status = 201
        /\ resp[r2] = HTTPException(400, "Username already registered")
        /\ Cardinality(store) = 1

\* C4 (as claimed): a POST /auth/signup sent to the application with a valid
\* body whose username and email are not stored reaches the registration
\* service and is answered 201 with id, username, email and created_at.
C4_SignupServedByApp ==
    \A r \in Reqs :
        ( /\ pc[r] = "done"
          /\ req[r].entry = "app"
          /\ req[r].method = "POST" /\ req[r].path = "/auth/signup"
          /\ req[r].body \in ValidBodies
          /\ \A u \in store : /\ u.username # req[r].body.username
                              /\ u.email # NormalisedEmail[req[r].body] )
        => /\ resp[r].status = 201
           /\ DOMAIN resp[r].body = {"id", "username", "email", "created_at"}
           /\ local[r].calls # <<>>

\* C5 (as claimed): a storage failure other than a uniqueness violation, at
\* the username lookup, the email lookup or the insert, ends the request with
\* 500 "An error occurred while creating the user", after a rollback, with
\* no statement run twice and no row added.
C5_StorageFailureIsInternalError ==
    \A r \in Reqs :
        (pc[r] = "done" /\ local[r].fault # "none")
        => /\ resp[r] = HTTPException(500, "An error occurred while creating the user")
           /\ local[r].rolled_back
           /\ local[r].written = 0
           /\ \A i, j \in 1..Len(local[r].calls) :
                 local[r].calls[i] = local[r].calls[j] => i = j

C7_ResponseHidesPassword ==
    \A r \in Reqs :
        (pc[r] = "done" /\ resp[r].status = 201)
        => /\ DOMAIN resp[r].body = {"id", "username", "email", "created_at"}
           /\ "password" \notin DOMAIN resp[r].body
           /\ "password_hash" \notin DOMAIN resp[r].body
           /\ \E u \in store :
                /\ u.id = resp[r].body.id /\ u.username = resp[r].body.username
                /\ u.email = resp[r].body.email /\ u.created_at = resp[r].body.created_at

\* C7 witness: a registration answered 201 whose stored row holds an argon2 hash.
C7_Witness ==
    \E r \in Reqs :
        /\ pc[r] = "done" /\ resp[r].status = 201
        /\ \E u \in store : u.id = resp[r].body.id /\ u.password_hash.alg = "argon2id"

----------------------------------------------------------------------------
(* SpecValidate: the UserCreate field validators on enumerated inputs *)

\* Inputs: every string of at most MaxCore characters over a small alphabet
\* (letters, a digit, a hyphen, a non-ASCII letter, a character outside every
\* class), as it is and padded with a neutral filler to the length limits.
UsernameAlphabet == {"a", "b", "c", "Z", "7", "-", "é", "!"}
UsernameInputs ==
    { PadTo(c, n, "_") :
        c \in StrsUpTo(UsernameAlphabet, MaxCore),
        n \in {0, UsernameMinLength, UsernameMaxLength, UsernameMaxLength + 1} }

PasswordAlphabet == {"a", "Z", "7", "É"}
PasswordInputs ==
    { PadTo(c, n, "!") :
        c \in StrsUpTo(PasswordAlphabet, MaxCore),
        n \in {0, PasswordMinLength - 1, PasswordMinLength,
               PasswordMaxLength, PasswordMaxLength + 1} }
    \cup {short1A, alllowercase1, NoDigitsHere, ValidPass123}

\* UserCreate's validation of the username field.
ValidateUsername ==
    /\ vField = "none"
    /\ \E v \in UsernameInputs :
        /\ vField' = "username"
        /\ vValue' = v
        /\ vAccepted' = UsernameAccepted(v)
    /\ UNCHANGED <<regVars, hashVars>>

\* UserCreate's validation of the password field.
ValidatePassword ==
    /\ vField = "none"
    /\ \E v \in PasswordInputs :
        /\ vField' = "password"
        /\ vValue' = v
        /\ vAccepted' = PasswordAccepted(v)
    /\ UNCHANGED <<regVars, hashVars>>

NextValidate == ValidateUsername \/ ValidatePassword

SpecValidate == Init /\ [][NextValidate]_vars

Letters == LowerAscii \cup UpperAscii \cup LowerOther \cup UpperOther
AsciiLettersAndDigits == LowerAscii \cup UpperAscii \cup DigitAscii

\* C8: a username is accepted iff it has 3 to 50 characters, every character
\* is in [A-Za-z0-9_-] and at least one is alphanumeric; "ab" and "---" are
\* rejected, "abc" is accepted.
C8_UsernameRule ==
    vField = "username"
    => /\ vAccepted <=>
            /\ Len(vValue) \in 3..50
            /\ Range(vValue) \subseteq (AsciiLettersAndDigits \cup {"_", "-"})
            /\ Range(vValue) \cap (Letters \cup DigitAscii) # {}
       /\ vValue \in {ab, dashes} => ~vAccepted
       /\ vValue = abc => vAccepted

\* C8 witness: "---" went through validation and was rejected.
C8_Witness == vField = "username" /\ vValue = dashes /\ ~vAccepted

\* C9: a password is accepted iff it has 8 to 100 characters and contains an
\* uppercase letter, a lowercase letter and a digit; "short1A",
\* "alllowercase1" and "NoDigitsHere" are rejected, "ValidPass123" is accepted.
C9_PasswordRule ==
    vField = "password"
    => /\ vAccepted <=>
            /\ Len(vValue) \in 8..100
            /\ Range(vValue) \cap (UpperAscii \cup UpperOther) # {}
            /\ Range(vValue) \cap (LowerAscii \cup LowerOther) # {}
            /\ Range(vValue) \cap DigitAscii # {}
       /\ vValue \in {short1A, alllowercase1, NoDigitsHere} => ~vAccepted
       /\ vValue = ValidPass123 => vAccepted

\* C9 witness: "NoDigitsHere" went through validation and was rejected.
C9_Witness == vField = "password" /\ vValue = NoDigitsHere /\ ~vAccepted

----------------------------------------------------------------------------
(* SpecHash: hash_password and verify_password on enumerated inputs *)

\* Passwords in the valid length range, the two limits included.
HashPasswords ==
    {ValidPass123, NoDigitsHere, alllowercase1}
    \cup { PadTo(c, n, "!") : c \in {<<"a">>, <<"Z">>},
                              n \in {PasswordMinLength, PasswordMaxLength} }

\* Passwords offered for verification: those, and two outside the range.
VerifyPasswords == HashPasswords \cup {short1A, <<>>}

\* hash_password(p) under a salt the hasher draws.
HashPassword ==
    /\ hPc = "start"
    /\ \E p \in HashPasswords, salt \in Salts :
        /\ hPassword' = p
        /\ hHash' = hash_password(p, salt)
    /\ hPc' = "hashed"
    /\ UNCHANGED <<hCandidate, hResult, hRaised, regVars, valVars>>

\* What a stored hash can have become: another algorithm's hash, a string
\* with no header, an argon2 hash whose salt is gone, and one whose digest
\* was altered.
CorruptHashes(h) ==
    { [h EXCEPT !.alg = "bcrypt"],
      [h EXCEPT !.alg = ""],
      [h EXCEPT !.salt = 0],
      [h EXCEPT !.digest = Argon2Digest(0, h.digest[2])] }

\* The hash handed to verify_password is not the one hash_password returned.
CorruptHash ==
    /\ hPc = "hashed"
    /\ hHash' \in CorruptHashes(hHash)
    /\ hPc' = "corrupted"
    /\ UNCHANGED <<hPassword, hCandidate, hResult, hRaised, regVars, valVars>>

\* verify_password(hash, candidate).
VerifyPassword ==
    /\ hPc \in {"hashed", "corrupted", "verified"}
    /\ \E c \in VerifyPasswords :
        /\ hCandidate' = c
        /\ hResult' = verify_password(hHash, c)
        /\ hRaised' = verify_password_raised(hHash, c)
    /\ hPc' = "verified"
    /\ UNCHANGED <<hPassword, hHash, regVars, valVars>>

NextHash == HashPassword \/ CorruptHash \/ VerifyPassword

SpecHash == Init /\ [][NextHash]_vars

\* C10: for a password p of valid length, verify_password(hash_password(p), p)
\* is true, and verify_password(hash_password(p), p2) is false for every
\* p2 different from p.
C10_VerifyRoundTrip ==
    ( /\ hPc = "verified"
      /\ Len(hPassword) \in 8..100
      /\ \E salt \in Salts : hHash = hash_password(hPassword, salt) )
    => /\ hCandidate = hPassword => hResult = TRUE
       /\ hCandidate # hPassword => hResult = FALSE

\* C10 witness: a wrong password was offered against a fresh hash and refused.
C10_Witness ==
    /\ hPc = "verified"
    /\ hHash = hash_password(hPassword, hHash.salt)
    /\ hCandidate # hPassword
    /\ hResult = FALSE

\* C11: verify_password never raises to its caller: whatever the hash
\* (fresh, of another algorithm, malformed, corrupted) and whatever the
\* password, it returns a boolean; it returns true only when the underlying
\* verification succeeds, and false for every hash that is not a well-formed
\* argon2 hash and for every wrong password.
C11_VerifyNeverRaises ==
    hPc = "verified"
    => /\ hRaised = "none"
       /\ hResult \in BOOLEAN
       /\ hResult = TRUE => PasswordHasherVerify(hHash, hCandidate) = "ok"
       /\ hHash.alg # "argon2id" => hResult = FALSE
       /\ hHash.salt \notin Salts => hResult = FALSE
       /\ hHash.digest # Argon2Digest(hHash.salt, hCandidate) => hResult = FALSE

\* C11 witness: the right password was offered against a hash whose salt is
\* gone; the library's error was swallowed and false returned.
C11_Witness ==
    /\ hPc = "verified"
    /\ hHash.alg = "argon2id" /\ hHash.salt = 0
    /\ hCandidate = hPassword
    /\ hResult = FALSE /\ hRaised = "none"

----------------------------------------------------------------------------
(* Claims about the order of register_user's steps (Spec) *)

ServiceOrder ==
    <<"get_user_by_username", "get_user_by_email", "hash_password", "create_user", "rollback">>

IsPrefix(s, t) == Len(s) <= Len(t) /\ \A i \in 1..Len(s) : s[i] = t[i]

\* What r has done is a prefix of the service's order, and a request turned
\* down by a lookup did nothing after that lookup: no hash, no insert.
C12_Done ==
    \A r \in Reqs :
        /\ IsPrefix(local[r].calls, ServiceOrder)
        /\ (pc[r] = "done" /\ resp[r] = HTTPException(400, "Username already registered"))
           => /\ local[r].calls = <<"get_user_by_username">>
              /\ local[r].password_hash = NoHash
              /\ local[r].written = 0
        /\ (pc[r] = "done" /\ resp[r] = HTTPException(400, "Email already registered"))
           => /\ local[r].calls = <<"get_user_by_username", "get_user_by_email">>
              /\ local[r].password_hash = NoHash
              /\ local[r].written = 0

\* r leaves the username check (resp. the email check) in this step, its
\* lookup answered by the database.
LeavesCheck(r, check) ==
    pc[r] = check /\ pc'[r] # check /\ local'[r].fault = "none"

\* The lookups decide: a stored username ends the request at the first check
\* with "Username already registered", whether or not the email is stored too;
\* a free username leads to the email check, where a stored email ends the
\* request with "Email already registered" and a free one leads to hashing.
\* Neither check touches the table.
C12_Step ==
    \A r \in Reqs :
        /\ LeavesCheck(r, "check_username")
           => /\ store' = store
              /\ IF \E u \in store : u.username = local[r].user_data.username
                 THEN /\ pc'[r] = "done"
                      /\ resp'[r] = HTTPException(400, "Username already registered")
                 ELSE pc'[r] = "check_email" /\ resp'[r] = resp[r]
        /\ LeavesCheck(r, "check_email")
           => /\ store' = store
              /\ IF \E u \in store : u.email = local[r].user_data.email
                 THEN /\ pc'[r] = "done"
                      /\ resp'[r] = HTTPException(400, "Email already registered")
                 ELSE pc'[r] = "hash" /\ resp'[r] = resp[r]

\* C12: register_user checks the username before the email, and hashes and
\* inserts only after both checks pass: a stored username fails with "Username
\* already registered" even when the email is stored too, a free username with
\* a stored email fails with "Email already registered", and in both cases no
\* hash is computed and no insert attempted.
C12_ChecksBeforeHashAndInsert == []C12_Done /\ [][C12_Step]_vars

\* C12 witness: a request whose username and email were both stored was
\* turned down for its username, having run nothing but the username lookup.
C12_Witness ==
    \E r \in Reqs :
        /\ pc[r] = "done"
        /\ resp[r] = HTTPException(400, "Username already registered")
        /\ local[r].calls = <<"get_user_by_username">>
        /\ \E u \in store : /\ u.username = local[r].user_data.username
                            /\ u.email = local[r].user_data.email

----------------------------------------------------------------------------
(* Claims about the insert turned down by a unique constraint (Spec) *)

DuplicateCredential == HTTPException(400, "Username or email already registered")

\* A request answered with the generic duplicate error passed both checks,
\* hashed, tried the insert and rolled back; it committed no row, and the row
\* that holds its username or email is another request's.
C13_Done ==
    \A r \in Reqs :
        (pc[r] = "done" /\ resp[r] = DuplicateCredential)
        => /\ local[r].calls = ServiceOrder
           /\ local[r].rolled_back
           /\ local[r].written = 0
           /\ local[r].fault = "none"
           /\ \E u \in store :
                \/ u.username = local[r].user_data.username
                \/ u.email = local[r].user_data.email

\* r's insert runs in this step and the database answers it.
Inserts(r) == pc[r] = "create" /\ pc'[r] = "done" /\ local'[r].fault = "none"

\* An insert that meets a row with its username or its email is answered with
\* the generic duplicate error after a rollback and leaves the table as it was.
C13_Step ==
    \A r \in Reqs :
        ( /\ Inserts(r)
          /\ \E u \in store :
                \/ u.username = local[r].user_data.username
                \/ u.email = local[r].user_data.email )
        => /\ resp'[r] = DuplicateCredential
           /\ local'[r].rolled_back
           /\ local'[r].calls = ServiceOrder
           /\ store' = store

\* C13: when both checks passed and the insert fails on a uniqueness violation
\* of either field, register_user rolls the session back and fails with 400
\* "Username or email already registered", and the table holds no record,
\* full or partial, from the failing request.
C13_RaceFallsBackToDuplicateCredential == []C13_Done /\ [][C13_Step]_vars

\* C13 witness: two requests with the same username and different emails both
\* passed both checks; the second insert was turned down and rolled back.
C13_Witness ==
    \E r1, r2 \in Reqs :
        /\ pc[r1] = "done" /\ pc[r2] = "done"
        /\ resp[r1].status = 201
        /\ resp[r2] = DuplicateCredential
        /\ local[r2].user_data.username = local[r1].user_data.username
        /\ local[r2].user_data.email # local[r1].user_data.email
        /\ local[r2].rolled_back
        /\ Cardinality(store) = 1

====
